---- MODULE Spec2Model ----
(***************************************************************************)
(* Model of the token remover cog (bot/cogs/token_remover.py) and of the   *)
(* attachment-count anti-spam rule (bot/rules/attachments.py).             *)
(*                                                                         *)
(* Text is a sequence of one-character strings.  Bytes are naturals in     *)
(* 0..255.  Python's unbounded integers are kept as big-endian sequences   *)
(* of base-256 digits wherever a value can exceed the checker's integers   *)
(* (the timestamp of a token), and as naturals elsewhere (a user id of at  *)
(* most nine digits).                                                      *)
(***************************************************************************)
EXTENDS Integers, Sequences, FiniteSets, TLC

VARIABLES
    text,             \* input of the pure functions: a message content or a fragment
    pieces,           \* how many pieces the input was composed from
    out,              \* result of the last application of a pure function / of the rule
    last_message,     \* attachments rule: the message under evaluation
    recent_messages,  \* attachments rule: the recent window, a sequence of messages
    config,           \* attachments rule: the rule configuration
    messages,         \* the guild/DM messages known to the platform, by id
    tasks,            \* the handler invocations (coroutines), in creation order
    ignored,          \* ModLog's deletion-suppression registrations, per message id
    stats             \* the "tokens.removed_tokens" counter

vars == <<text, pieces, out, last_message, recent_messages, config,
          messages, tasks, ignored, stats>>

\* Optional values (Python's None or a value): the empty sequence or <<value>>.
Nothing == <<>>

Some(x) == <<x>>

IsPresent(o) == o # <<>>

(***************************************************************************)
(* Generic helpers                                                         *)
(***************************************************************************)
Range(s) == {s[i] : i \in 1..Len(s)}

RECURSIVE Repeat(_, _)
Repeat(c, n) == IF n = 0 THEN <<>> ELSE <<c>> \o Repeat(c, n - 1)

(***************************************************************************)
(* Constants of token_remover.py                                           *)
(***************************************************************************)
DISCORD_EPOCH == 1420070400

TOKEN_EPOCH == 1293840000

(***************************************************************************)
(* Characters                                                              *)
(***************************************************************************)
Upper == <<"A","B","C","D","E","F","G","H","I","J","K","L","M",
           "N","O","P","Q","R","S","T","U","V","W","X","Y","Z">>

Lower == <<"a","b","c","d","e","f","g","h","i","j","k","l","m",
           "n","o","p","q","r","s","t","u","v","w","x","y","z">>

Digits == <<"0","1","2","3","4","5","6","7","8","9">>

\* The character class [\w\-=] of TOKEN_RE under re.ASCII: ASCII letters,
\* digits and underscore, plus "-" and "=".  Any other character (".", " ",
\* a non-ASCII letter such as "é") is outside the class.
TokenChars == Range(Upper) \cup Range(Lower) \cup Range(Digits) \cup {"_", "-", "="}

\* The standard base64 alphabet, in value order.
B64Alphabet == Upper \o Lower \o Digits \o <<"+", "/">>

\* base64.urlsafe_b64decode first translates "-" to "+" and "_" to "/".
UrlsafeTranslate(c) == IF c = "-" THEN "+" ELSE IF c = "_" THEN "/" ELSE c

IsB64Char(c) == \E i \in 1..64 : B64Alphabet[i] = c

B64Value(c) == (CHOOSE i \in 1..64 : B64Alphabet[i] = c) - 1

(***************************************************************************)
(* utils.pad_base64: append "=" until the length is a multiple of 4.       *)
(***************************************************************************)
pad_base64(data) == data \o Repeat("=", (4 - (Len(data) % 4)) % 4)

(***************************************************************************)
(* binascii.a2b_base64 in its default (non-strict) mode, as called by      *)
(* base64.b64decode(validate=False).  The decoder walks the characters     *)
(* keeping the position in the current quad, the left-over bits, the       *)
(* number of consecutive pads and the bytes emitted so far.  Characters    *)
(* outside the alphabet are skipped.  A pad that completes a quad ends the *)
(* decoding and whatever follows is ignored; input that ends inside a quad *)
(* is a binascii.Error.                                                    *)
(***************************************************************************)
DecodeError == [error |-> "binascii.Error"]

RECURSIVE a2b_base64_loop(_, _, _, _, _, _)
a2b_base64_loop(s, i, quad_pos, leftchar, pads, bytes) ==
    IF i > Len(s)
    THEN IF quad_pos # 0 THEN DecodeError ELSE [bytes |-> bytes]
    ELSE LET ch == s[i] IN
         IF ch = "="
         THEN IF quad_pos >= 2 /\ quad_pos + pads + 1 >= 4
              THEN [bytes |-> bytes]
              ELSE a2b_base64_loop(s, i + 1, quad_pos, leftchar,
                                   IF quad_pos >= 2 THEN pads + 1 ELSE pads, bytes)
         ELSE IF ~IsB64Char(ch)
         THEN a2b_base64_loop(s, i + 1, quad_pos, leftchar, pads, bytes)
         ELSE LET v == B64Value(ch) IN
              CASE quad_pos = 0 ->
                     a2b_base64_loop(s, i + 1, 1, v, 0, bytes)
                [] quad_pos = 1 ->
                     a2b_base64_loop(s, i + 1, 2, v % 16, 0,
                                     Append(bytes, leftchar * 4 + v \div 16))
                [] quad_pos = 2 ->
                     a2b_base64_loop(s, i + 1, 3, v % 4, 0,
                                     Append(bytes, leftchar * 16 + v \div 4))
                [] OTHER ->
                     a2b_base64_loop(s, i + 1, 0, 0, 0,
                                     Append(bytes, leftchar * 64 + v))

urlsafe_b64decode(s) ==
    a2b_base64_loop([i \in 1..Len(s) |-> UrlsafeTranslate(s[i])], 1, 0, 0, 0, <<>>)

(***************************************************************************)
(* bytes.decode('utf-8') (strict): the code points of a well-formed UTF-8  *)
(* byte sequence, or a UnicodeDecodeError (a ValueError).                  *)
(***************************************************************************)
UnicodeError == [error |-> "UnicodeDecodeError"]

IsCont(b) == b >= 128 /\ b <= 191

RECURSIVE utf8_loop(_, _, _)
utf8_loop(b, i, cps) ==
    IF i > Len(b) THEN [string |-> cps]
    ELSE LET b0 == b[i]
             has(n) == i + n <= Len(b)
         IN
         IF b0 < 128
         THEN utf8_loop(b, i + 1, Append(cps, b0))
         ELSE IF b0 >= 194 /\ b0 <= 223
         THEN IF has(1) /\ IsCont(b[i + 1])
              THEN utf8_loop(b, i + 2, Append(cps, (b0 - 192) * 64 + (b[i + 1] - 128)))
              ELSE UnicodeError
         ELSE IF b0 >= 224 /\ b0 <= 239
         THEN IF has(2) /\ IsCont(b[i + 1]) /\ IsCont(b[i + 2])
                 /\ (b0 = 224 => b[i + 1] >= 160)
                 /\ (b0 = 237 => b[i + 1] <= 159)
              THEN utf8_loop(b, i + 3,
                             Append(cps, (b0 - 224) * 4096 + (b[i + 1] - 128) * 64
                                         + (b[i + 2] - 128)))
              ELSE UnicodeError
         ELSE IF b0 >= 240 /\ b0 <= 244
         THEN IF has(3) /\ IsCont(b[i + 1]) /\ IsCont(b[i + 2]) /\ IsCont(b[i + 3])
                 /\ (b0 = 240 => b[i + 1] >= 144)
                 /\ (b0 = 244 => b[i + 1] <= 143)
              THEN utf8_loop(b, i + 4,
                             Append(cps, (b0 - 240) * 262144 + (b[i + 1] - 128) * 4096
                                         + (b[i + 2] - 128) * 64 + (b[i + 3] - 128)))
              ELSE UnicodeError
         ELSE UnicodeError

utf8_decode(bytes) == utf8_loop(bytes, 1, <<>>)

\* str.isascii(): every code point is below 128 (true of the empty string).
isascii(string) == \A i \in 1..Len(string) : string[i] < 128

\* A code point str.isdigit() accepts: the ASCII digits and the non-ASCII
\* digits of the one- and two-byte UTF-8 range (superscript two, three and
\* one; Arabic-Indic, extended Arabic-Indic and NKo digits).  Digits of
\* higher planes are left out; extract_user_id rejects every non-ASCII
\* string before the digit test can matter.
IsDigitCodePoint(cp) ==
    \/ cp >= 48 /\ cp <= 57
    \/ cp \in {178, 179, 185}
    \/ cp >= 1632 /\ cp <= 1641
    \/ cp >= 1776 /\ cp <= 1785
    \/ cp >= 1984 /\ cp <= 1993

\* str.isdigit(): non-empty and every character is a digit.
isdigit(string) == Len(string) > 0 /\ \A i \in 1..Len(string) : IsDigitCodePoint(string[i])

\* int(string) for a string of ASCII digits.
RECURSIVE int_of_digits(_, _, _)
int_of_digits(string, i, acc) ==
    IF i > Len(string) THEN acc
    ELSE int_of_digits(string, i + 1, acc * 10 + (string[i] - 48))

int(string) == int_of_digits(string, 1, 0)

\* str(n) / "{n}" for a natural number: its decimal digits.
RECURSIVE IntToChars(_)
IntToChars(n) ==
    IF n < 10 THEN <<Digits[n + 1]>>
    ELSE IntToChars(n \div 10) \o <<Digits[(n % 10) + 1]>>

(***************************************************************************)
(* Unbounded naturals: big-endian base-256 digits without leading zeros    *)
(* (zero is the empty sequence).                                           *)
(***************************************************************************)
RECURSIVE StripZeros(_)
StripZeros(d) == IF d # <<>> /\ d[1] = 0 THEN StripZeros(Tail(d)) ELSE d

\* int.from_bytes(bytes, byteorder="big")
int_from_bytes(bytes) == StripZeros(bytes)

RECURSIVE NatToBig(_)
NatToBig(n) == IF n = 0 THEN <<>> ELSE Append(NatToBig(n \div 256), n % 256)

RECURSIVE BigAddLoop(_, _, _, _, _)
BigAddLoop(a, b, i, carry, acc) ==
    IF i >= Len(a) /\ i >= Len(b)
    THEN IF carry = 0 THEN acc ELSE <<carry>> \o acc
    ELSE LET da == IF i < Len(a) THEN a[Len(a) - i] ELSE 0
             db == IF i < Len(b) THEN b[Len(b) - i] ELSE 0
             sum == da + db + carry
         IN BigAddLoop(a, b, i + 1, sum \div 256, <<sum % 256>> \o acc)

BigAdd(a, b) == BigAddLoop(a, b, 0, 0, <<>>)

RECURSIVE BigGeqFrom(_, _, _)
BigGeqFrom(a, b, i) ==
    IF i > Len(a) THEN TRUE
    ELSE IF a[i] # b[i] THEN a[i] > b[i]
    ELSE BigGeqFrom(a, b, i + 1)

BigGeq(a, b) == IF Len(a) # Len(b) THEN Len(a) > Len(b) ELSE BigGeqFrom(a, b, 1)

(***************************************************************************)
(* TokenRemover.extract_user_id, is_valid_user_id, is_valid_timestamp      *)
(***************************************************************************)
extract_user_id(b64_content) ==
    LET decoded == urlsafe_b64decode(pad_base64(b64_content)) IN
    IF "error" \in DOMAIN decoded THEN Nothing
    ELSE LET s == utf8_decode(decoded.bytes) IN
         IF "error" \in DOMAIN s THEN Nothing
         ELSE IF ~(isascii(s.string) /\ isdigit(s.string)) THEN Nothing
         ELSE Some(int(s.string))

\* Mutant of is_valid_user_id: tests "decoded_id is None" instead of falsiness.
is_valid_user_id_is_none(b64_content) == IsPresent(extract_user_id(b64_content))

\* "if not decoded_id: return False": None and 0 are both falsy.
is_valid_user_id(b64_content) ==
    LET decoded_id == extract_user_id(b64_content) IN
    IF ~IsPresent(decoded_id) \/ decoded_id[1] = 0 THEN FALSE ELSE TRUE

\* Mutant of is_valid_timestamp: a strict comparison with DISCORD_EPOCH.
is_valid_timestamp_strict(b64_content) ==
    LET decoded == urlsafe_b64decode(pad_base64(b64_content)) IN
    IF "error" \in DOMAIN decoded THEN FALSE
    ELSE BigGeq(BigAdd(int_from_bytes(decoded.bytes), NatToBig(TOKEN_EPOCH)),
                NatToBig(DISCORD_EPOCH + 1))

is_valid_timestamp(b64_content) ==
    LET decoded == urlsafe_b64decode(pad_base64(b64_content)) IN
    IF "error" \in DOMAIN decoded THEN FALSE
    ELSE LET timestamp == int_from_bytes(decoded.bytes) IN
         IF BigGeq(BigAdd(timestamp, NatToBig(TOKEN_EPOCH)), NatToBig(DISCORD_EPOCH))
         THEN TRUE
         ELSE FALSE

(***************************************************************************)
(* TOKEN_RE = ([\w\-=]+)\.([\w\-=]+)\.([\w\-=]+) and its finditer.        *)
(* A group is greedy and "." is outside the class, so a match attempt at   *)
(* position i takes three maximal runs of class characters joined by       *)
(* single dots.  finditer tries every position from left to right and      *)
(* resumes right after a match (matches never overlap).                    *)
(***************************************************************************)
RECURSIVE RunEnd(_, _)
RunEnd(s, i) == IF i <= Len(s) /\ s[i] \in TokenChars THEN RunEnd(s, i + 1) ELSE i

IsDotAt(s, i) == i <= Len(s) /\ s[i] = "."

TOKEN_RE_match(s, i) ==
    LET e1 == RunEnd(s, i)
        e2 == RunEnd(s, e1 + 1)
        e3 == RunEnd(s, e2 + 1)
    IN IF e1 > i /\ IsDotAt(s, e1) /\ e2 > e1 + 1 /\ IsDotAt(s, e2) /\ e3 > e2 + 1
       THEN Some([groups |-> <<SubSeq(s, i, e1 - 1), SubSeq(s, e1 + 1, e2 - 1),
                               SubSeq(s, e2 + 1, e3 - 1)>>,
                  end |-> e3])
       ELSE Nothing

RECURSIVE finditer_from(_, _, _)
finditer_from(s, i, acc) ==
    IF i > Len(s) THEN acc
    ELSE LET m == TOKEN_RE_match(s, i) IN
         IF IsPresent(m)
         THEN finditer_from(s, m[1].end, Append(acc, m[1].groups))
         ELSE finditer_from(s, i + 1, acc)

TOKEN_RE_finditer(s) == finditer_from(s, 1, <<>>)

\* class Token(NamedTuple): Token(*match.groups())
Token(groups) == [user_id |-> groups[1], timestamp |-> groups[2], hmac |-> groups[3]]

(***************************************************************************)
(* TokenRemover.find_token_in_message: the loop over the matches, with the *)
(* number of matches the loop looked at when it returned.                  *)
(***************************************************************************)
\* Mutant of find_token_loop: only the first match is looked at (re.search).
find_token_loop_first(matches, k) ==
    IF k > Len(matches) THEN [token |-> Nothing, examined |-> Len(matches)]
    ELSE LET token == Token(matches[k]) IN
         IF is_valid_user_id(token.user_id) /\ is_valid_timestamp(token.timestamp)
         THEN [token |-> Some(token), examined |-> k]
         ELSE [token |-> Nothing, examined |-> k]

RECURSIVE find_token_loop(_, _)
find_token_loop(matches, k) ==
    IF k > Len(matches) THEN [token |-> Nothing, examined |-> Len(matches)]
    ELSE LET token == Token(matches[k]) IN
         IF is_valid_user_id(token.user_id) /\ is_valid_timestamp(token.timestamp)
         THEN [token |-> Some(token), examined |-> k]
         ELSE find_token_loop(matches, k + 1)

find_token_in_message(content) == find_token_loop(TOKEN_RE_finditer(content), 1).token
(***************************************************************************)
(* Variables a specification does not use stay at these values.            *)
(***************************************************************************)
PureVars == <<text, pieces, out>>

RuleVars == <<last_message, recent_messages, config>>

BotVars == <<messages, tasks, ignored, stats>>

IdlePure == text = <<>> /\ pieces = 0 /\ out = Nothing

IdleRule == last_message = Nothing /\ recent_messages = <<>> /\ config = Nothing

IdleBot == messages = <<>> /\ tasks = <<>> /\ ignored = {} /\ stats = 0

(***************************************************************************)
(* SpecFrag: a fragment is composed from pieces, then extract_user_id,     *)
(* is_valid_user_id and is_valid_timestamp are applied to it.              *)
(***************************************************************************)
MaxFragPieces == 3

\* Single characters, and the chunks that reach the boundary of the epoch
\* test: "B4YfgA" is 126230400 = DISCORD_EPOCH - TOKEN_EPOCH, "B4Yffw" is
\* one less, "B4YfgQ" is one more; "____" is three bytes of 255.
FragPieces ==
    { <<"A">>, <<"=">>, <<"_">>, <<"w">>, <<"M">>, <<"Q">>,
      <<"B","4","Y","f">>, <<"g","A">>, <<"f","w">>, <<"g","Q">>,
      <<"_","_","_","_">> }

FragInit == IdlePure /\ IdleRule /\ IdleBot

FragAppend ==
    /\ out = Nothing
    /\ pieces < MaxFragPieces
    /\ \E p \in FragPieces : text' = text \o p
    /\ pieces' = pieces + 1
    /\ UNCHANGED <<out, RuleVars, BotVars>>

FragApply ==
    /\ out = Nothing
    /\ out' = Some([user_id |-> extract_user_id(text),
                    valid_user_id |-> is_valid_user_id(text),
                    valid_timestamp |-> is_valid_timestamp(text)])
    /\ UNCHANGED <<text, pieces, RuleVars, BotVars>>

FragNext == FragAppend \/ FragApply

SpecFrag == FragInit /\ [][FragNext]_vars

(***************************************************************************)
(* SpecScan: a message content is composed from pieces, then               *)
(* find_token_in_message scans it.                                         *)
(***************************************************************************)
MaxScanPieces == 3

\* Fragments with their trailing dot, separators, and whole candidates:
\*   "MQ" decodes to "1", "MA" to "0", "AA" to a NUL byte, "2bM" to an
\*   Arabic-Indic digit three, "A" does not decode; "B4YfgA" is the smallest
\*   accepted timestamp and is not UTF-8; "MTIzNA" decodes to "1234", a
\*   valid user id and a valid timestamp.
ScanPieces ==
    { <<".">>, <<" ">>,
      <<"M","Q",".">>, <<"M","A",".">>, <<"A","A",".">>, <<"A",".">>,
      <<"2","b","M",".">>,
      <<"B","4","Y","f","g","A",".">>,
      <<"M","T","I","z","N","A">>,
      <<"M","A",".","B","4","Y","f","g","A",".","h","m"," ">>,
      <<"M","Q",".","A","A",".","h","m",".">>,
      <<"M","Q",".","B","4","Y","f","g","A",".","h","m"," ">> }

ScanInit == IdlePure /\ IdleRule /\ IdleBot

ScanAppend ==
    /\ out = Nothing
    /\ pieces < MaxScanPieces
    /\ \E p \in ScanPieces : text' = text \o p
    /\ pieces' = pieces + 1
    /\ UNCHANGED <<out, RuleVars, BotVars>>

ScanApply ==
    /\ out = Nothing
    /\ out' = Some(find_token_loop(TOKEN_RE_finditer(text), 1))
    /\ UNCHANGED <<text, pieces, RuleVars, BotVars>>

ScanNext == ScanAppend \/ ScanApply

SpecScan == ScanInit /\ [][ScanNext]_vars
(***************************************************************************)
(* Claims about the pure functions                                         *)
(***************************************************************************)
\* A candidate passes when both of its checked fragments are valid.
CandidatePasses(groups) == is_valid_user_id(groups[1]) /\ is_valid_timestamp(groups[2])

\* C3: find_token_in_message returns the first candidate, in left-to-right
\* order, whose user id and timestamp fragments are both valid; it looks at no
\* candidate after that one, an earlier candidate failing a check does not
\* stop the scan, and the result is absent iff no candidate passes both checks.
C3_FirstValidCandidate ==
    IsPresent(out) =>
        LET cands == TOKEN_RE_finditer(text)
            res == out[1]
        IN /\ (res.token = Nothing) <=> (\A k \in 1..Len(cands) : ~CandidatePasses(cands[k]))
           /\ res.token = Nothing => res.examined = Len(cands)
           /\ IsPresent(res.token) =>
                  /\ res.examined \in 1..Len(cands)
                  /\ res.token[1] = Token(cands[res.examined])
                  /\ CandidatePasses(cands[res.examined])
                  /\ \A j \in 1..(res.examined - 1) : ~CandidatePasses(cands[j])

\* C3 witness: the first candidate failed, the second was returned and a third
\* candidate was never looked at.
C3_Witness ==
    /\ IsPresent(out)
    /\ IsPresent(out[1].token)
    /\ out[1].examined = 2
    /\ Len(TOKEN_RE_finditer(text)) = 3

\* The decoded text of a fragment is a non-empty string of ASCII digits.
DecodesToAsciiDigits(fragment) ==
    LET decoded == urlsafe_b64decode(pad_base64(fragment)) IN
    /\ "bytes" \in DOMAIN decoded
    /\ "string" \in DOMAIN utf8_decode(decoded.bytes)
    /\ LET string == utf8_decode(decoded.bytes).string IN
       /\ Len(string) > 0
       /\ \A i \in 1..Len(string) : string[i] \in 48..57

\* C7: is_valid_user_id is true iff extract_user_id yields a present, non-zero
\* integer; it is false when the fragment does not decode, when the decoded
\* text is not purely ASCII digits and when the decoded integer is 0; a
\* candidate whose user id fragment decodes to 0 is never returned.
C7_ValidUserIdIffNonZero ==
    IsPresent(out) =>
        LET cands == TOKEN_RE_finditer(text) IN
        \A k \in 1..Len(cands) :
            LET fragment == cands[k][1]
                decoded_id == extract_user_id(fragment)
            IN /\ is_valid_user_id(fragment) <=> (IsPresent(decoded_id) /\ decoded_id[1] # 0)
               /\ IsPresent(decoded_id) <=> DecodesToAsciiDigits(fragment)
               /\ ~DecodesToAsciiDigits(fragment) => ~is_valid_user_id(fragment)
               /\ decoded_id = Some(0) =>
                      /\ ~is_valid_user_id(fragment)
                      /\ out[1].token # Some(Token(cands[k]))

\* C7 witness: a scanned text whose only candidate has a user id fragment
\* decoding to 0 and a valid timestamp fragment, and nothing was returned.
C7_Witness ==
    /\ IsPresent(out)
    /\ out[1].token = Nothing
    /\ LET cands == TOKEN_RE_finditer(text) IN
       /\ Len(cands) = 1
       /\ extract_user_id(cands[1][1]) = Some(0)
       /\ is_valid_timestamp(cands[1][2])

\* C8: is_valid_timestamp is true iff the fragment decodes and the decoded
\* big-endian value v satisfies v >= DISCORD_EPOCH - TOKEN_EPOCH (126230400);
\* a decoding failure yields false.
C8_TimestampEpochTest ==
    IsPresent(out) =>
        LET decoded == urlsafe_b64decode(pad_base64(text)) IN
        /\ out[1].valid_timestamp \in BOOLEAN
        /\ out[1].valid_timestamp <=>
              /\ "bytes" \in DOMAIN decoded
              /\ BigGeq(int_from_bytes(decoded.bytes), NatToBig(DISCORD_EPOCH - TOKEN_EPOCH))
        /\ ("bytes" \in DOMAIN decoded /\ int_from_bytes(decoded.bytes) = <<>>)
              => ~out[1].valid_timestamp

\* C8 witness: the boundary value 126230400 was decoded and accepted.
C8_Witness ==
    /\ IsPresent(out)
    /\ text = <<"B","4","Y","f","g","A">>
    /\ int_from_bytes(urlsafe_b64decode(pad_base64(text)).bytes) = NatToBig(126230400)
    /\ out[1].valid_timestamp
(***************************************************************************)
(* rules/attachments.py: apply(last_message, recent_messages, config).     *)
(* A message is [id, author, attachments], attachments being the number of *)
(* its attachments (the rule only takes len(msg.attachments)).             *)
(***************************************************************************)
RECURSIVE relevant_filter(_, _)
relevant_filter(s, last) ==
    IF s = <<>> THEN <<>>
    ELSE LET msg == Head(s) IN
         IF msg.author = last.author /\ msg.attachments > 0
         THEN <<msg>> \o relevant_filter(Tail(s), last)
         ELSE relevant_filter(Tail(s), last)

RECURSIVE SumAttachments(_)
SumAttachments(s) == IF s = <<>> THEN 0 ELSE Head(s).attachments + SumAttachments(Tail(s))

apply(last, recent, cfg) ==
    LET relevant_messages == <<last>> \o relevant_filter(recent, last)
        total_recent_attachments == SumAttachments(relevant_messages)
    IN IF total_recent_attachments > cfg.max
       THEN Some([reason |-> <<"sent ">> \o IntToChars(total_recent_attachments)
                               \o <<" attachments in ">> \o IntToChars(cfg.max) \o <<"s">>,
                  members |-> <<last.author>>,
                  messages |-> relevant_messages])
       ELSE Nothing

(***************************************************************************)
(* SpecRule: the caller hands the rule a latest message, a window of       *)
(* distinct recent messages (which may hold the latest message itself,     *)
(* the caller having recorded it before evaluating) and a configuration.   *)
(***************************************************************************)
MaxRuleMsgs == 3

MaxWindow == 2

MaxAttachments == 2

MaxConfigMax == 3

RuleAuthors == {"alice", "bob"}

RuleMessages == [id : 1..MaxRuleMsgs, author : RuleAuthors, attachments : 0..MaxAttachments]

RuleInit ==
    /\ IdlePure /\ IdleBot
    /\ last_message \in {Some(m) : m \in {x \in RuleMessages : x.id = 1}}
    /\ recent_messages = <<>>
    /\ config \in {Some([max |-> n]) : n \in 1..MaxConfigMax}

\* The caller's history gains a message: the latest one, or another message
\* with an id of its own.
RuleObserve ==
    /\ out = Nothing
    /\ Len(recent_messages) < MaxWindow
    /\ \E m \in RuleMessages :
          /\ \A i \in 1..Len(recent_messages) : recent_messages[i].id # m.id
          /\ m.id = last_message[1].id => m = last_message[1]
          /\ recent_messages' = Append(recent_messages, m)
    /\ UNCHANGED <<last_message, config, PureVars, BotVars>>

RuleApply ==
    /\ out = Nothing
    /\ out' = Some(apply(last_message[1], recent_messages, config[1]))
    /\ UNCHANGED <<text, pieces, RuleVars, BotVars>>

RuleNext == RuleObserve \/ RuleApply

SpecRule == RuleInit /\ [][RuleNext]_vars

\* The relevant subset of the rule, as a set of messages.
RelevantSubset ==
    {last_message[1]} \cup
    {m \in Range(recent_messages) : m.author = last_message[1].author /\ m.attachments > 0}

RECURSIVE SumOverSet(_)
SumOverSet(S) ==
    IF S = {} THEN 0
    ELSE LET m == CHOOSE x \in S : TRUE IN m.attachments + SumOverSet(S \ {m})

\* C4 (as claimed): with sum the attachments of the relevant subset, each
\* message counted once also when the latest message is in the window, the
\* rule returns a violation iff sum > max, carrying the reason
\* "sent <sum> attachments in <max>s", the author and the subset.
C4_AsClaimed ==
    IsPresent(out) =>
        LET sum == SumOverSet(RelevantSubset)
            result == out[1]
        IN /\ IsPresent(result) <=> sum > config[1].max
           /\ IsPresent(result) =>
                 /\ result[1].reason = <<"sent ">> \o IntToChars(sum) \o <<" attachments in ">>
                                        \o IntToChars(config[1].max) \o <<"s">>
                 /\ Range(result[1].members) = {last_message[1].author}
                 /\ Range(result[1].messages) = RelevantSubset
(***************************************************************************)
(* The message texts of token_remover.py.  A text is a sequence of         *)
(* strings: the literal parts of a template as they stand, the formatted   *)
(* values character by character.  The backquote of the templates is      *)
(* written as an apostrophe.                                               *)
(***************************************************************************)
\* str(msg.author) and msg.author.mention
AuthorMention(author) == <<"<@">> \o IntToChars(author.id) \o <<">">>

ChannelMention(channel) == <<"<#">> \o IntToChars(channel) \o <<">">>

\* "{user_id}" for the Optional[int] that extract_user_id returns.
FormatUserId(user_id) == IF IsPresent(user_id) THEN IntToChars(user_id[1]) ELSE <<"None">>

DELETION_MESSAGE_TEMPLATE(mention) ==
    <<"Hey ">> \o mention
    \o <<"! I noticed you posted a seemingly valid Discord API token in your message and have removed your message. This means that your token has been **compromised**. Please change your token **immediately** at: <https://discordapp.com/developers/applications/me>\n\nFeel free to re-post it with the token removed. If you believe this was a mistake, please let us know!">>

LOG_MESSAGE(author, author_id, channel, user_id, timestamp, hmac) ==
    <<"Censored a seemingly valid token sent by ", author, " ('">> \o IntToChars(author_id)
    \o <<"') in ">> \o channel \o <<", token was '">>
    \o user_id \o <<".">> \o timestamp \o <<".">> \o hmac \o <<"'">>

DECODED_LOG_MESSAGE(user_id) ==
    <<"The token user_id decodes into ">> \o FormatUserId(user_id) \o <<".">>

USER_TOKEN_MESSAGE(user_id, user_name) ==
    <<"The token user_id decodes into ">> \o FormatUserId(user_id)
    \o <<", which matches '", user_name, "' and means this is a valid USER token.">>

\* Mutant of format_log_message: the hmac is written out as it is.
format_log_message_raw_hmac(msg, token, user_id, user_name) ==
    LET message == LOG_MESSAGE(msg.author.name, msg.author.id, ChannelMention(msg.channel),
                               token.user_id, token.timestamp, token.hmac)
        more == IF IsPresent(user_name) /\ user_name[1] # ""
                THEN USER_TOKEN_MESSAGE(user_id, user_name[1])
                ELSE DECODED_LOG_MESSAGE(user_id)
    IN message \o <<"\n">> \o more

\* TokenRemover.format_log_message; "if user_name:" is false of None and of "".
format_log_message(msg, token, user_id, user_name) ==
    LET message == LOG_MESSAGE(msg.author.name, msg.author.id, ChannelMention(msg.channel),
                               token.user_id, token.timestamp,
                               Repeat("x", Len(token.hmac)))
        more == IF IsPresent(user_name) /\ user_name[1] # ""
                THEN USER_TOKEN_MESSAGE(user_id, user_name[1])
                ELSE DECODED_LOG_MESSAGE(user_id)
    IN message \o <<"\n">> \o more
(***************************************************************************)
(* The collaborator calls a handler makes, as records.                     *)
(***************************************************************************)
IgnoreCall(msg) == [call |-> "mod_log.ignore", event |-> "message_delete", id |-> msg.id]

DeleteCall(msg) == [call |-> "msg.delete", id |-> msg.id]

SendCall(msg) ==
    [call |-> "channel.send", channel |-> msg.channel,
     text |-> DELETION_MESSAGE_TEMPLATE(AuthorMention(msg.author))]

GetMemberCall(user_id, user) == [call |-> "guild.get_member", user_id |-> user_id, result |-> user]

SendLogMessageCall(msg, log_message, user_name) ==
    [call |-> "mod_log.send_log_message",
     icon_url |-> "Icons.token_removed",
     colour |-> "Colours.soft_red",
     title |-> "Token removed!",
     text |-> log_message,
     thumbnail |-> msg.author.name,
     channel_id |-> "Channels.mod_alerts",
     ping_everyone |-> IsPresent(user_name)]

IncrCall == [call |-> "stats.incr", name |-> "tokens.removed_tokens"]

\* The members of the guild, by user id, with str(member).
GuildMembers == [id \in {1} |-> "bob#0002"]

\* msg.guild.get_member(user_id): the member or None.
get_member(user_id) ==
    IF IsPresent(user_id) /\ user_id[1] \in DOMAIN GuildMembers
    THEN Some(GuildMembers[user_id[1]])
    ELSE Nothing

(***************************************************************************)
(* TokenRemover.take_action, cut at its await points.  A handler is        *)
(* [msg, found, pc, trace, debug]: the message it was given, the token it  *)
(* found, where it is suspended, the collaborator calls it has made and    *)
(* the texts it has logged at debug level.                                 *)
(***************************************************************************)
Finished(msg) == [msg |-> msg, found |-> Nothing, pc |-> "done", trace |-> <<>>, debug |-> <<>>]

\* Lines 90-93: register the suppression, then call msg.delete() and await.
take_action(msg, found_token) ==
    [msg |-> msg, found |-> Some(found_token), pc |-> "await_delete",
     trace |-> <<IgnoreCall(msg), DeleteCall(msg)>>, debug |-> <<>>]

\* Mutant: NotFound is not caught and propagates.
take_action_on_delete_uncaught(h, outcome) ==
    IF outcome = "ok"
    THEN [h EXCEPT !.pc = "await_send", !.trace = Append(@, SendCall(h.msg))]
    ELSE [h EXCEPT !.pc = "raised"]

\* Mutant: NotFound is logged but the dispatch goes on.
take_action_on_delete_no_return(h, outcome) ==
    CASE outcome = "ok" ->
           [h EXCEPT !.pc = "await_send", !.trace = Append(@, SendCall(h.msg))]
      [] outcome = "NotFound" ->
           [h EXCEPT !.pc = "await_send", !.trace = Append(@, SendCall(h.msg)),
                     !.debug = Append(@, <<"Failed to remove token in message ">>
                                         \o IntToChars(h.msg.id)
                                         \o <<": message already deleted.">>)]
      [] OTHER -> [h EXCEPT !.pc = "raised"]

\* Mutant: the author is not told.
take_action_on_delete_no_notice(h, outcome) ==
    CASE outcome = "ok" -> [h EXCEPT !.pc = "await_send"]
      [] outcome = "NotFound" ->
           [h EXCEPT !.pc = "done",
                     !.debug = Append(@, <<"Failed to remove token in message ">>
                                         \o IntToChars(h.msg.id)
                                         \o <<": message already deleted.">>)]
      [] OTHER -> [h EXCEPT !.pc = "raised"]

\* Lines 92-98: msg.delete() returned or raised; on success the notice is
\* sent to the channel and awaited.
take_action_on_delete(h, outcome) ==
    CASE outcome = "ok" ->
           [h EXCEPT !.pc = "await_send", !.trace = Append(@, SendCall(h.msg))]
      [] outcome = "NotFound" ->
           [h EXCEPT !.pc = "done",
                     !.debug = Append(@, <<"Failed to remove token in message ">>
                                         \o IntToChars(h.msg.id)
                                         \o <<": message already deleted.">>)]
      [] OTHER -> [h EXCEPT !.pc = "raised"]

\* Mutant: the alert always pings.
take_action_on_send_always_ping(h, outcome) ==
    IF outcome # "ok" THEN [h EXCEPT !.pc = "raised"]
    ELSE LET user_id == extract_user_id(h.found[1].user_id)
             user == get_member(user_id)
             log_message == format_log_message(h.msg, h.found[1], user_id, user)
         IN [h EXCEPT !.pc = "await_alert",
                      !.trace = @ \o <<GetMemberCall(user_id, user),
                                       SendLogMessageCall(h.msg, log_message, Some("everyone"))>>,
                      !.debug = Append(@, log_message)]

\* Lines 98-119: channel.send() returned or raised; on success the user id is
\* decoded and looked up, the log message composed, logged and sent to the
\* moderation log, which is awaited.
take_action_on_send(h, outcome) ==
    IF outcome # "ok" THEN [h EXCEPT !.pc = "raised"]
    ELSE LET user_id == extract_user_id(h.found[1].user_id)
             user == get_member(user_id)
             user_name == IF IsPresent(user) THEN user ELSE Nothing
             log_message == format_log_message(h.msg, h.found[1], user_id, user_name)
         IN [h EXCEPT !.pc = "await_alert",
                      !.trace = @ \o <<GetMemberCall(user_id, user),
                                       SendLogMessageCall(h.msg, log_message, user_name)>>,
                      !.debug = Append(@, log_message)]

\* Lines 111-121: send_log_message() returned or raised; on success the
\* counter is incremented.
take_action_on_alert(h, outcome) ==
    IF outcome # "ok" THEN [h EXCEPT !.pc = "raised"]
    ELSE [h EXCEPT !.pc = "done", !.trace = Append(@, IncrCall)]

(***************************************************************************)
(* TokenRemover.on_message and on_message_edit, up to the first await.     *)
(***************************************************************************)
on_message(msg) ==
    IF ~IsPresent(msg.guild) \/ msg.author.bot THEN Finished(msg)
    ELSE LET found_token == find_token_in_message(msg.content) IN
         IF IsPresent(found_token) THEN take_action(msg, found_token[1]) ELSE Finished(msg)

\* Mutant: the edit handler scans the message as it was before the edit.
on_message_edit_before(before, after) == on_message(before)

on_message_edit(before, after) == on_message(after)

(***************************************************************************)
(* Spec: the gateway delivers message and edit events, each starting a     *)
(* handler; handlers interleave at their await points; another actor may   *)
(* delete a message at any time.                                           *)
(***************************************************************************)
MaxMsgs == 1

MaxTasks == 3

\* Who posts where: a member in a guild channel, a bot in a guild channel, a
\* user in a direct message (which has no guild).
BotAuthors ==
    { [name |-> "alice#0001", id |-> 7, bot |-> FALSE],
      [name |-> "robo#0003", id |-> 9, bot |-> TRUE] }

Places == { [guild |-> Some("guild"), channel |-> 10], [guild |-> Nothing, channel |-> 11] }

Senders ==
    {sd \in [author : BotAuthors, place : Places] :
        sd.author.bot => IsPresent(sd.place.guild)}

\* "hi"; a token of the member 1; a token whose user id 2 is no member of the
\* guild.
BotContents ==
    { <<"h","i">>,
      <<"M","Q",".","B","4","Y","f","g","A",".","a","b">>,
      <<"M","g",".","B","4","Y","f","g","A",".","a","b">> }

Message(id, content, author, place) ==
    [id |-> id, content |-> content, author |-> author,
     guild |-> place.guild, channel |-> place.channel]

StoredMessage(m) ==
    Message(m, messages[m].content, messages[m].author, messages[m].place)

\* ModLog.ignore(event, id): the registrations a starting handler has made.
ModLog_ignore(registry, h) ==
    registry \cup {<<h.trace[i].event, h.trace[i].id>> :
                       i \in {j \in 1..Len(h.trace) : h.trace[j].call = "mod_log.ignore"}}

NewTask(event, h) == [event |-> event, resp |-> <<>>] @@ h

Resume(task, h, outcome) ==
    [task EXCEPT !.pc = h.pc, !.trace = h.trace, !.debug = h.debug,
                 !.resp = Append(@, outcome)]

HandlerOf(task) ==
    [msg |-> task.msg, found |-> task.found, pc |-> task.pc,
     trace |-> task.trace, debug |-> task.debug]

Init ==
    /\ IdlePure /\ IdleRule
    /\ messages = <<>>
    /\ tasks = <<>>
    /\ ignored = {}
    /\ stats = 0

MessageEvent ==
    /\ Len(messages) < MaxMsgs
    /\ Len(tasks) < MaxTasks
    /\ \E content \in BotContents, sender \in Senders :
          LET msg == Message(Len(messages) + 1, content, sender.author, sender.place)
              h == on_message(msg)
          IN /\ messages' = Append(messages, [content |-> content, author |-> sender.author,
                                              place |-> sender.place, exists |-> TRUE])
             /\ tasks' = Append(tasks, NewTask([kind |-> "message", before |-> Nothing,
                                                after |-> msg], h))
             /\ ignored' = ModLog_ignore(ignored, h)
    /\ UNCHANGED <<stats, PureVars, RuleVars>>

EditEvent ==
    /\ Len(tasks) < MaxTasks
    /\ \E m \in 1..Len(messages), content \in BotContents :
          /\ messages[m].exists
          /\ content # messages[m].content
          /\ LET before == StoredMessage(m)
                 after == [before EXCEPT !.content = content]
                 h == on_message_edit(before, after)
             IN /\ messages' = [messages EXCEPT ![m].content = content]
                /\ tasks' = Append(tasks, NewTask([kind |-> "edit", before |-> Some(before),
                                                   after |-> after], h))
                /\ ignored' = ModLog_ignore(ignored, h)
    /\ UNCHANGED <<stats, PureVars, RuleVars>>

\* Another actor (a moderator, the author) deletes a message while a handler
\* is waiting for its own delete of it.  (A deletion at any other time only
\* ends the edit events of the message.)
ExternalDelete ==
    /\ \E m \in 1..Len(messages) :
          /\ messages[m].exists
          /\ \E t \in 1..Len(tasks) : tasks[t].pc = "await_delete" /\ tasks[t].msg.id = m
          /\ messages' = [messages EXCEPT ![m].exists = FALSE]
    /\ UNCHANGED <<tasks, ignored, stats, PureVars, RuleVars>>

\* Delete-by-id: succeeds once while the message exists, is NotFound once it
\* is gone, and may fail otherwise (an HTTP error).
DeleteOutcomes(id) == IF messages[id].exists THEN {"ok", "error"} ELSE {"NotFound", "error"}

DeleteReturns ==
    /\ \E t \in 1..Len(tasks) :
          /\ tasks[t].pc = "await_delete"
          /\ \E outcome \in DeleteOutcomes(tasks[t].msg.id) :
                /\ tasks' = [tasks EXCEPT ![t] =
                                Resume(@, take_action_on_delete(HandlerOf(@), outcome), outcome)]
                /\ messages' = IF outcome = "ok"
                               THEN [messages EXCEPT ![tasks[t].msg.id].exists = FALSE]
                               ELSE messages
    /\ UNCHANGED <<ignored, stats, PureVars, RuleVars>>

SendReturns ==
    /\ \E t \in 1..Len(tasks) :
          /\ tasks[t].pc = "await_send"
          /\ \E outcome \in {"ok", "error"} :
                tasks' = [tasks EXCEPT ![t] =
                            Resume(@, take_action_on_send(HandlerOf(@), outcome), outcome)]
    /\ UNCHANGED <<messages, ignored, stats, PureVars, RuleVars>>

SendLogMessageReturns ==
    /\ \E t \in 1..Len(tasks) :
          /\ tasks[t].pc = "await_alert"
          /\ \E outcome \in {"ok", "error"} :
                /\ tasks' = [tasks EXCEPT ![t] =
                                Resume(@, take_action_on_alert(HandlerOf(@), outcome), outcome)]
                /\ stats' = IF outcome = "ok" THEN stats + 1 ELSE stats
    /\ UNCHANGED <<messages, ignored, PureVars, RuleVars>>

Next ==
    \/ MessageEvent
    \/ EditEvent
    \/ ExternalDelete
    \/ DeleteReturns
    \/ SendReturns
    \/ SendLogMessageReturns

Spec == Init /\ [][Next]_vars
(***************************************************************************)
(* SpecPair: two handler runs side by side, each in a world of its own,    *)
(* whose collaborators answer alike.  The pair is either on_message for    *)
(* two messages that differ only in the content of the hmac fragment, or   *)
(* on_message_edit(before, after) beside on_message for the final message  *)
(* (the same message, or a fresh one with the same content).               *)
(***************************************************************************)
MaxHmacLen == 2

RECURSIVE HmacsOfLen(_)
HmacsOfLen(n) ==
    IF n = 0 THEN {<<>>}
    ELSE {Append(h, c) : h \in HmacsOfLen(n - 1), c \in {"a", "x"}}

\* User id fragments: "MQ" is the member 1, "Mg" is 2 (no member).
PairUserIds == { <<"M","Q">>, <<"M","g">> }

PairTimestamp == <<"B","4","Y","f","g","A">>

PairContent(user_id, hmac) == user_id \o <<".">> \o PairTimestamp \o <<".">> \o hmac

PairInit == IdlePure /\ IdleRule /\ IdleBot

PairStartHmac ==
    /\ tasks = <<>>
    /\ \E sender \in Senders, user_id \in PairUserIds, n \in 1..MaxHmacLen :
          \E h1, h2 \in HmacsOfLen(n) :
              LET m1 == Message(1, PairContent(user_id, h1), sender.author, sender.place)
                  m2 == Message(1, PairContent(user_id, h2), sender.author, sender.place)
              IN tasks' = << NewTask([kind |-> "message", before |-> Nothing, after |-> m1],
                                     on_message(m1)),
                             NewTask([kind |-> "message", before |-> Nothing, after |-> m2],
                                     on_message(m2)) >>
    /\ out' = Some("hmac")
    /\ UNCHANGED <<text, pieces, messages, ignored, stats, RuleVars>>

PairStartEdit ==
    /\ tasks = <<>>
    /\ \E sender \in Senders, old \in BotContents, new \in BotContents, id \in {1, 2} :
          /\ old # new
          /\ LET before == Message(1, old, sender.author, sender.place)
                 after == [before EXCEPT !.content = new]
                 fresh == [after EXCEPT !.id = id]
             IN tasks' = << NewTask([kind |-> "edit", before |-> Some(before), after |-> after],
                                    on_message_edit(before, after)),
                            NewTask([kind |-> "message", before |-> Nothing, after |-> fresh],
                                    on_message(fresh)) >>
    /\ out' = Some("edit")
    /\ UNCHANGED <<text, pieces, messages, ignored, stats, RuleVars>>

\* Every handler of the pair waiting at `pc` gets the same answer.
PairAnswer(pc, outcome) ==
    [t \in 1..Len(tasks) |->
        IF tasks[t].pc # pc THEN tasks[t]
        ELSE Resume(tasks[t],
                    CASE pc = "await_delete" -> take_action_on_delete(HandlerOf(tasks[t]), outcome)
                      [] pc = "await_send" -> take_action_on_send(HandlerOf(tasks[t]), outcome)
                      [] OTHER -> take_action_on_alert(HandlerOf(tasks[t]), outcome),
                    outcome)]

PairDeleteReturns ==
    /\ \E t \in 1..Len(tasks) : tasks[t].pc = "await_delete"
    /\ \E outcome \in {"ok", "NotFound", "error"} : tasks' = PairAnswer("await_delete", outcome)
    /\ UNCHANGED <<messages, ignored, stats, PureVars, RuleVars>>

PairSendReturns ==
    /\ \E t \in 1..Len(tasks) : tasks[t].pc = "await_send"
    /\ \E outcome \in {"ok", "error"} : tasks' = PairAnswer("await_send", outcome)
    /\ UNCHANGED <<messages, ignored, stats, PureVars, RuleVars>>

PairSendLogMessageReturns ==
    /\ \E t \in 1..Len(tasks) : tasks[t].pc = "await_alert"
    /\ \E outcome \in {"ok", "error"} : tasks' = PairAnswer("await_alert", outcome)
    /\ UNCHANGED <<messages, ignored, stats, PureVars, RuleVars>>

PairNext ==
    \/ PairStartHmac
    \/ PairStartEdit
    \/ PairDeleteReturns
    \/ PairSendReturns
    \/ PairSendLogMessageReturns

SpecPair == PairInit /\ [][PairNext]_vars

(***************************************************************************)
(* Claims about the handlers                                               *)
(***************************************************************************)
TaskIds == 1..Len(tasks)

Terminal(task) == task.pc \in {"done", "raised"}

CallNames(trace) == [i \in 1..Len(trace) |-> trace[i].call]

CallsNamed(task, name) == {i \in 1..Len(task.trace) : task.trace[i].call = name}

\* The event's message is one on_message acts on and its text holds a
\* candidate find_token_in_message accepts.
TokenContents == {content \in BotContents : IsPresent(find_token_in_message(content))}

TextHasToken(msg) == msg.content \in TokenContents

DeleteSucceeded(task) == Len(task.resp) >= 1 /\ task.resp[1] = "ok"

DeleteNotFound(task) == Len(task.resp) >= 1 /\ task.resp[1] = "NotFound"

\* s holds sub as a contiguous part.
Contains(s, sub) ==
    \E i \in 0..(Len(s) - Len(sub)) : \A j \in 1..Len(sub) : s[i + j] = sub[j]

\* C1 (as claimed): every finished handler of a message or edit event whose
\* text holds an accepted candidate has deleted the message and posted the
\* remediation notice mentioning the author to the message's channel.
C1_AsClaimed ==
    \A t \in TaskIds :
        (Terminal(tasks[t]) /\ TextHasToken(tasks[t].event.after)) =>
            /\ DeleteSucceeded(tasks[t])
            /\ \E i \in 1..Len(tasks[t].trace) :
                  tasks[t].trace[i] = SendCall(tasks[t].event.after)

\* C1 (amended): for a message or edit event in a guild, from an author that
\* is not a bot, whose text holds an accepted candidate, the handler calls
\* delete on that message and, when that delete succeeds, posts the generic
\* remediation notice mentioning the author to the message's channel.
C1_GuildTokenDeletedAndNotified ==
    \A t \in TaskIds :
        LET task == tasks[t]
            msg == task.event.after
        IN (IsPresent(msg.guild) /\ ~msg.author.bot /\ TextHasToken(msg)) =>
              /\ Len(task.trace) >= 2
              /\ task.trace[2] = DeleteCall(msg)
              /\ DeleteSucceeded(task) =>
                    /\ Len(task.trace) >= 3
                    /\ task.trace[3].call = "channel.send"
                    /\ task.trace[3].channel = msg.channel
                    /\ task.trace[3].text =
                          DELETION_MESSAGE_TEMPLATE(<<"<@">> \o IntToChars(msg.author.id) \o <<">">>)

\* C1 witness: an edit that put a token into a guild message was handled, the
\* delete succeeded and the notice was sent.
C1_Witness ==
    \E t \in TaskIds :
        /\ tasks[t].event.kind = "edit"
        /\ TextHasToken(tasks[t].event.after)
        /\ DeleteSucceeded(tasks[t])
        /\ CallsNamed(tasks[t], "channel.send") # {}

\* C2: when the delete fails with NotFound the dispatch stops cleanly: no
\* notice, no membership lookup, no alert, no counter increment, and no error
\* reaches the caller.
C2_NotFoundStopsCleanly ==
    /\ \A t \in TaskIds :
          DeleteNotFound(tasks[t]) =>
              /\ tasks[t].pc = "done"
              /\ tasks[t].resp = <<"NotFound">>
              /\ CallNames(tasks[t].trace) = <<"mod_log.ignore", "msg.delete">>
    /\ stats = Cardinality({t \in TaskIds : DeleteSucceeded(tasks[t])
                                             /\ CallsNamed(tasks[t], "stats.incr") # {}})

\* C2 witness: a handler's delete was answered NotFound.
C2_Witness == \E t \in TaskIds : tasks[t].resp = <<"NotFound">> /\ tasks[t].pc = "done"

\* The texts a handler has produced: the notices, the debug log lines, the
\* alert texts.
TextsOf(task) ==
    [notice |-> [i \in CallsNamed(task, "channel.send") |-> task.trace[i].text],
     debug |-> task.debug,
     alert |-> [i \in CallsNamed(task, "mod_log.send_log_message") |-> task.trace[i].text]]

\* C5: the texts of a dispatch do not depend on the content of the hmac
\* fragment: two dispatches whose messages and tokens differ only there, and
\* whose collaborators answer alike, produce the same notice, debug log and
\* alert texts; the alert text holds the user id and timestamp fragments as
\* they are, followed by as many placeholder characters as the hmac fragment
\* is long.
C5_HmacCensored ==
    out = Some("hmac") =>
        /\ tasks[1].pc = tasks[2].pc
        /\ TextsOf(tasks[1]) = TextsOf(tasks[2])
        /\ \A t \in 1..2 :
              \A i \in CallsNamed(tasks[t], "mod_log.send_log_message") :
                  LET token == tasks[t].found[1] IN
                  /\ token = Token(TOKEN_RE_finditer(tasks[t].event.after.content)[1])
                  /\ Contains(tasks[t].trace[i].text,
                              <<", token was '">> \o token.user_id \o <<".">> \o token.timestamp
                              \o <<".">> \o [k \in 1..Len(token.hmac) |-> "x"] \o <<"'">>)
                  /\ tasks[t].debug = <<tasks[t].trace[i].text>>

\* C5 witness: two dispatches whose tokens have different hmac fragments of
\* the same length have both emitted their alert.
C5_Witness ==
    /\ out = Some("hmac")
    /\ CallsNamed(tasks[1], "mod_log.send_log_message") # {}
    /\ CallsNamed(tasks[2], "mod_log.send_log_message") # {}
    /\ tasks[1].found[1].hmac # tasks[2].found[1].hmac
    /\ Len(tasks[1].found[1].hmac) = Len(tasks[2].found[1].hmac)

\* A call without the message id.
CanonCall(c) == IF "id" \in DOMAIN c THEN [c EXCEPT !.id = 0] ELSE c

CanonTrace(trace) == [i \in 1..Len(trace) |-> CanonCall(trace[i])]

\* C6: the handler of an edit event (before, after) makes the calls, with the
\* arguments, that on_message makes for `after`, whatever `before` was; an
\* edit is handled as a fresh message with the same final content is (the
\* same calls and arguments but for the message id).
C6_EditSameAsMessage ==
    out = Some("edit") =>
        LET edit == tasks[1]
            message == tasks[2]
        IN /\ edit.found = message.found
           /\ edit.pc = message.pc
           /\ edit.resp = message.resp
           /\ CanonTrace(edit.trace) = CanonTrace(message.trace)
           /\ message.event.after = edit.event.after =>
                 /\ edit.trace = message.trace
                 /\ edit.debug = message.debug

\* C6 witness: an edit put a token into a message that had none; it and a
\* fresh message with the same content were dispatched to the end.
C6_Witness ==
    /\ out = Some("edit")
    /\ ~IsPresent(find_token_in_message(tasks[1].event.before[1].content))
    /\ IsPresent(find_token_in_message(tasks[1].event.after.content))
    /\ tasks[2].event.after.id # tasks[1].event.after.id
    /\ tasks[1].resp = <<"ok", "ok", "ok">>
    /\ tasks[2].resp = <<"ok", "ok", "ok">>
    /\ CallsNamed(tasks[1], "stats.incr") # {}

\* C9: a dispatch whose delete succeeds and in which no collaborator fails
\* makes exactly these calls in this order: suppression registration for
\* (message_delete, id), delete, author notice, membership lookup of the
\* decoded user id, moderation alert, counter increment; the registration
\* precedes the delete in every dispatch, and the alert pings iff the lookup
\* resolved a member.
C9_DispatchOrder ==
    \A t \in TaskIds :
        LET task == tasks[t] IN
        /\ (task.pc = "done" /\ task.resp = <<"ok", "ok", "ok">>) =>
              /\ CallNames(task.trace) =
                    <<"mod_log.ignore", "msg.delete", "channel.send", "guild.get_member",
                      "mod_log.send_log_message", "stats.incr">>
              /\ task.trace[1].event = "message_delete"
              /\ task.trace[1].id = task.msg.id
              /\ task.trace[2].id = task.msg.id
              /\ task.trace[4].user_id = extract_user_id(task.found[1].user_id)
              /\ task.trace[5].ping_everyone <=> IsPresent(task.trace[4].result)
              /\ task.trace[6].name = "tokens.removed_tokens"
        /\ \A i \in CallsNamed(task, "msg.delete") :
              /\ i > 1
              /\ task.trace[i - 1] = [call |-> "mod_log.ignore", event |-> "message_delete",
                                       id |-> task.trace[i].id]
              /\ <<"message_delete", task.trace[i].id>> \in ignored
        /\ \A i \in CallsNamed(task, "mod_log.send_log_message") :
              task.trace[i].ping_everyone <=> IsPresent(task.trace[i - 1].result)

\* C9 witness: a complete dispatch whose lookup resolved a member and whose
\* alert pinged.
C9_Witness ==
    \E t \in TaskIds :
        /\ tasks[t].pc = "done" /\ tasks[t].resp = <<"ok", "ok", "ok">>
        /\ IsPresent(tasks[t].trace[4].result)
        /\ tasks[t].trace[5].ping_everyone

\* The number of calls named `name` the handlers of message id m have made.
RECURSIVE CountCalls(_, _, _)
CountCalls(m, name, t) ==
    IF t = 0 THEN 0
    ELSE CountCalls(m, name, t - 1)
         + (IF tasks[t].msg.id = m THEN Cardinality(CallsNamed(tasks[t], name)) ELSE 0)

\* C10: however the handlers of one message id interleave, at most one gets
\* past the delete, so the message gets at most one notice, one alert and one
\* counter increment; a handler answered NotFound stops having made no call
\* but the suppression registration and the delete.
C10_AtMostOneDispatchPerMessage ==
    /\ \A m \in 1..Len(messages) :
          /\ Cardinality({t \in TaskIds : tasks[t].msg.id = m /\ DeleteSucceeded(tasks[t])}) <= 1
          /\ CountCalls(m, "channel.send", Len(tasks)) <= 1
          /\ CountCalls(m, "mod_log.send_log_message", Len(tasks)) <= 1
          /\ CountCalls(m, "stats.incr", Len(tasks)) <= 1
    /\ stats <= Len(messages)
    /\ \A t \in TaskIds :
          (Terminal(tasks[t]) /\ IsPresent(tasks[t].found) /\ ~DeleteSucceeded(tasks[t])) =>
              tasks[t].trace = <<IgnoreCall(tasks[t].msg), DeleteCall(tasks[t].msg)>>

\* C10 witness: three handlers of one message id (the message event and two
\* edit events), one dispatched to the end and two answered NotFound.
C10_Witness ==
    \E t1, t2, t3 \in TaskIds :
        /\ t2 # t3
        /\ tasks[t1].msg.id = tasks[t2].msg.id
        /\ tasks[t1].msg.id = tasks[t3].msg.id
        /\ tasks[t1].resp = <<"ok", "ok", "ok">>
        /\ tasks[t2].resp = <<"NotFound">>
        /\ tasks[t3].resp = <<"NotFound">>
====
